---------------------------- MODULE Spec2Model ----------------------------
(***************************************************************************)
(* hanafs: the remote access client (package hana) and the filesystem      *)
(* adapter (package fs) of src/hana/client.go.                             *)
(*                                                                         *)
(* The remote repository service and the network are the environment.     *)
(* Every HTTP exchange of an operation is answered either by the server's  *)
(* regular answer for the current remote store (ServerGet) or by a fault   *)
(* drawn by the environment (an Exchange script: the answer to the first   *)
(* request of a Client.request call, to the token handshake and to the     *)
(* retry).                                                                 *)
(***************************************************************************)
EXTENDS Integers, Sequences, FiniteSets, TLC

VARIABLES
    client,        \* "nil" | "ready": the *Client NewClient returned
    token,         \* Client.token
    remote,        \* the remote store: path -> Absent or content length
    now,           \* the clock, in seconds (fuse.Now / the caches' clock)
    notExistList,  \* HanaFS.notExistList
    statCache,     \* HanaFS.statCache: key -> entry
    dirCache,      \* HanaFS.dirCache: key -> entry
    call,          \* the last call of the client's API, as a test would log it
    lastOp,        \* the last filesystem operation, as the bridging layer saw it
    threads        \* the calls in progress on concurrent threads, and where each is

vars ==
    <<client, token, remote, now, notExistList, statCache, dirCache, call, lastOp,
      threads>>

---------------------------------------------------------------------------
(* Bounds of the model *)

\* Longest regular-file content on the remote store.
MaxLen == 1
\* Length of the document the service returns for a directory read as content.
DirDocLen == 3
\* Last instant of the clock.
MaxTime == 15
\* Largest caller buffer and largest offset of a Read.
MaxBuf == 2
MaxOfst == 4
\* Largest LocalTimeStamp of a metadata document.
MaxStamp == 1
\* Longest negative-existence list the list operations start from.
MaxList == 3

---------------------------------------------------------------------------
(* Program constants *)

valueRequired == "required"
FetchToken == "fetch"
UnsafeToken == "unsafe"
InfoPath == "/sap/hana/xs/dt/base/info"
FileBase == "/sap/hana/xs/dt/base/file"
DefaultRemoteCacheSeconds == 15
ENOENT == 2

ErrFileNotFound == "ErrFileNotFound"
ErrRedirect == "redirect, please check your credential"
ErrNotAccepted == "request is not accepted"
ErrServerDown == "server is down"
ErrFetchToken == "could not fetch csrf token, please check your credential"
ErrTransport == "transport error"
ErrLookupHost == "lookup host failed"
ErrDecode == "json decode error"
NoErr == "nil"

---------------------------------------------------------------------------
(* The remote store and the service's regular answers *)

Absent == -1
Root == "/d"
FilePaths == {"/d/a"}
DirPaths == {"/d", "/d/b"}
FsPaths == FilePaths \cup DirPaths
ChildNames == <<"a", "b">>

ChildPath(dir, name) == dir \o "/" \o name

\* The children of dir the store holds, in the order the service lists them.
Listed(store, dir) ==
    SelectSeq(ChildNames,
              LAMBDA n : ChildPath(dir, n) \in FsPaths /\ store[ChildPath(dir, n)] # Absent)

Bytes(n) == [i \in 1..n |-> i]

Tokens == {"t1", "t2"}

NoAttributes ==
    [Executable |-> FALSE, Archive |-> FALSE, Hidden |-> FALSE,
     ReadOnly |-> FALSE, SymbolicLink |-> FALSE, Activated |-> FALSE]

\* The attributes the service reports for a path.
AttributesOf(p) ==
    IF p \in FilePaths
    THEN [Executable |-> TRUE, Archive |-> FALSE, Hidden |-> FALSE,
          ReadOnly |-> TRUE, SymbolicLink |-> FALSE, Activated |-> TRUE]
    ELSE [Executable |-> FALSE, Archive |-> FALSE, Hidden |-> TRUE,
          ReadOnly |-> FALSE, SymbolicLink |-> FALSE, Activated |-> FALSE]

NoDoc ==
    [Directory |-> FALSE, Attributes |-> NoAttributes, LocalTimeStamp |-> 0,
     Children |-> <<>>]

\* A response body: its bytes, whether they parse as a JSON object, and the
\* object they parse to.
ErrorBody == [bytes |-> <<>>, json |-> FALSE, doc |-> NoDoc]
ErrorJsonBody == [bytes |-> Bytes(1), json |-> TRUE, doc |-> NoDoc]

\* A response: err is a transport failure (no response at all).
NoResp == [err |-> TRUE, status |-> 0, csrf |-> "", body |-> ErrorBody]
Resp(status, csrf, body) ==
    [err |-> FALSE, status |-> status, csrf |-> csrf, body |-> body]

\* How the service names a child's location in a listing: the absolute
\* location of the child's content, under the file API.
ContentLocation(p) == FileBase \o p

ChildDoc(dir, name) ==
    [Name |-> name,
     ContentLocation |-> ContentLocation(ChildPath(dir, name)),
     Directory |-> ChildPath(dir, name) \in DirPaths]

MetaDoc(store, p, depth) ==
    [Directory |-> p \in DirPaths,
     Attributes |-> AttributesOf(p),
     LocalTimeStamp |-> 1,
     Children |->
        IF depth = 1 /\ p \in DirPaths
        THEN LET names == Listed(store, p)
             IN  [i \in 1..Len(names) |-> ChildDoc(p, names[i])]
        ELSE <<>>]

\* The service's regular answer to GET url with the given query
\* ("content": none, "meta": depth=0&parts=meta, "list": depth=1).
ServerGet(store, url, query) ==
    IF \E p \in FsPaths : url = FileBase \o p /\ store[p] # Absent
    THEN LET p == CHOOSE q \in FsPaths : url = FileBase \o q
         IN  IF query = "content" /\ p \in FilePaths
             THEN Resp(200, "", [bytes |-> Bytes(store[p]), json |-> FALSE, doc |-> NoDoc])
             ELSE Resp(200, "",
                       [bytes |-> Bytes(DirDocLen), json |-> TRUE,
                        doc |-> MetaDoc(store, p, IF query = "list" THEN 1 ELSE 0)])
    ELSE Resp(404, "", ErrorBody)

---------------------------------------------------------------------------
(* The environment's faults *)

GetFaults == {"ok", "csrf", "csrfLower", "forbidden", "down", "downJson", "net"}
CsrfFaults == {"csrf", "csrfLower"}

Respond(fault, regular) ==
    CASE fault = "ok"        -> regular
      [] fault = "csrf"      -> Resp(403, "Required", ErrorBody)
      [] fault = "csrfLower" -> Resp(403, "required", ErrorBody)
      [] fault = "forbidden" -> Resp(403, "", ErrorBody)
      [] fault = "down"      -> Resp(500, "", ErrorBody)
      [] fault = "downJson"  -> Resp(500, "", ErrorJsonBody)
      [] OTHER               -> NoResp

HeadStatuses == {200, 300, 399, 400, 499, 500, 599, 600}

\* The answers to the handshake HEAD InfoPath.
HeadResponses ==
    {NoResp}
    \cup {Resp(s, "", ErrorBody) : s \in HeadStatuses}
    \cup {Resp(s, UnsafeToken, ErrorBody) : s \in {200, 401}}
    \cup {Resp(s, t, ErrorBody) : s \in {200, 503}, t \in Tokens}

HeadGrants(h) == ~h.err /\ h.csrf # "" /\ h.csrf # UnsafeToken

\* One Client.request call's exchanges, normalised: what is never asked is "ok".
NoHead == Resp(200, "", ErrorBody)
Exchange(first, refresh, retry) ==
    [first |-> first, refresh |-> refresh, retry |-> retry]
Exchanges(faults, heads, retries) ==
    {Exchange(f, NoHead, "ok") : f \in faults \ CsrfFaults}
    \cup {Exchange(f, h, "ok") : f \in faults \cap CsrfFaults,
                                 h \in {x \in heads : ~HeadGrants(x)}}
    \cup {Exchange(f, h, r) : f \in faults \cap CsrfFaults,
                              h \in {x \in heads : HeadGrants(x)},
                              r \in retries}

RetryFaults == {"ok", "csrf", "down", "net"}
ClientExchanges == Exchanges(GetFaults, HeadResponses, RetryFaults)

---------------------------------------------------------------------------
(* package hana: the remote access client *)

ToLower(s) ==
    CASE s = "Required" -> "required"
      [] s = "REQUIRED" -> "required"
      [] OTHER          -> s

isCSRFTokenError_AnyForbidden(response) == response.status = 403

isCSRFTokenError(response) ==
    response.status = 403 /\ ToLower(response.csrf) = valueRequired

Sent(method, url, tok) == [method |-> method, url |-> url, token |-> tok]

fetchCSRFToken_Off(tok, h) ==
    IF h.err THEN [err |-> ErrTransport, token |-> tok]
    ELSE IF h.csrf # "" /\ h.csrf # UnsafeToken
         THEN [err |-> NoErr, token |-> h.csrf]
         ELSE [err |-> CASE 300 < h.status /\ h.status < 400  -> ErrRedirect
                         [] 400 <= h.status /\ h.status < 500 -> ErrNotAccepted
                         [] 500 <= h.status /\ h.status < 600 -> ErrServerDown
                         [] OTHER                             -> ErrFetchToken,
               token |-> tok]

fetchCSRFToken_Unsafe(tok, h) ==
    IF h.err THEN [err |-> ErrTransport, token |-> tok]
    ELSE IF h.csrf # ""
         THEN [err |-> NoErr, token |-> h.csrf]
         ELSE [err |-> CASE 300 <= h.status /\ h.status < 400 -> ErrRedirect
                         [] 400 <= h.status /\ h.status < 500 -> ErrNotAccepted
                         [] 500 <= h.status /\ h.status < 600 -> ErrServerDown
                         [] OTHER                             -> ErrFetchToken,
               token |-> tok]

\* Client.fetchCSRFToken with the handshake answered by h: the error it
\* returns and Client.token afterwards.
fetchCSRFToken(tok, h) ==
    IF h.err THEN [err |-> ErrTransport, token |-> tok]
    ELSE IF h.csrf # "" /\ h.csrf # UnsafeToken
         THEN [err |-> NoErr, token |-> h.csrf]
         ELSE [err |-> CASE 300 <= h.status /\ h.status < 400 -> ErrRedirect
                         [] 400 <= h.status /\ h.status < 500 -> ErrNotAccepted
                         [] 500 <= h.status /\ h.status < 600 -> ErrServerDown
                         [] OTHER                             -> ErrFetchToken,
               token |-> tok]

\* What Client.request returns (panic: it never returned), with Client.token
\* afterwards and the requests sent, in order.
Result(panic, err, resp, tok, sent) ==
    [panic |-> panic, err |-> err, resp |-> resp, token |-> tok, sent |-> sent]

\* Client.request, lines 69-77: the retry re-sends the infos of the first
\* attempt, whose header holds the token read before that attempt; r2 is the
\* retry's response.
requestRetried(tok, url, f, r2) ==
    IF r2.err
    THEN Result(FALSE, ErrTransport, NoResp, f.token,
                <<Sent("GET", url, tok), Sent("HEAD", InfoPath, FetchToken),
                  Sent("GET", url, tok)>>)
    ELSE Result(FALSE, NoErr, r2, f.token,
                <<Sent("GET", url, tok), Sent("HEAD", InfoPath, FetchToken),
                  Sent("GET", url, tok)>>)

\* Client.request, lines 65-69: f is what fetchCSRFToken returned.
requestRefreshed(tok, url, regular, x, f) ==
    IF f.err # NoErr
    THEN Result(FALSE, f.err, NoResp, f.token,
                <<Sent("GET", url, tok), Sent("HEAD", InfoPath, FetchToken)>>)
    ELSE requestRetried(tok, url, f, Respond(x.retry, regular))

\* Client.request, lines 61-63: r1 is the first attempt's response.  After a
\* transport failure resp is nil, and resp.Response() of line 63 panics.
requestFirst(tok, url, regular, x, r1) ==
    IF r1.err THEN Result(TRUE, NoErr, NoResp, tok, <<Sent("GET", url, tok)>>)
    ELSE IF isCSRFTokenError(r1)
    THEN requestRefreshed(tok, url, regular, x, fetchCSRFToken(tok, x.refresh))
    ELSE Result(FALSE, NoErr, r1, tok, <<Sent("GET", url, tok)>>)

\* Client.request for url, sent with Client.token = tok; regular is the
\* service's regular answer and x the exchanges the environment draws.
request(tok, url, regular, x) ==
    requestFirst(tok, url, regular, x, Respond(x.first, regular))

NoPathStat ==
    [Directory |-> FALSE, Executable |-> FALSE, Archive |-> FALSE,
     Hidden |-> FALSE, ReadOnly |-> FALSE, SymbolicLink |-> FALSE,
     Activated |-> FALSE, TimeStamp |-> 0]

\* What a call of the client's API returns: panic (the call never returned),
\* err, the value of the call's kind, Client.token afterwards and the
\* requests sent, in order.
Returned(panic, err, data, stat, children, tok, sent) ==
    [panic |-> panic, err |-> err, data |-> data, stat |-> stat,
     children |-> children, token |-> tok, sent |-> sent]

Failed(q, err) == Returned(q.panic, err, <<>>, NoPathStat, <<>>, q.token, q.sent)

FileURL(filePath) == FileBase \o filePath

\* Client.ReadFile, lines 140-148: q is what Client.request returned.
ReadFileOn(q) ==
    IF q.panic \/ q.err # NoErr THEN Failed(q, q.err)
    ELSE IF q.resp.status = 404 THEN Failed(q, ErrFileNotFound)
    ELSE Returned(FALSE, NoErr, q.resp.body.bytes, NoPathStat, <<>>, q.token, q.sent)

\* Client.ReadFile
ReadFile(tok, store, filePath, x) ==
    ReadFileOn(request(tok, FileURL(filePath),
                       ServerGet(store, FileURL(filePath), "content"), x))

\* Client.ReadDirectory, lines 160-174
ReadDirectoryOn(q) ==
    IF q.panic \/ q.err # NoErr THEN Failed(q, q.err)
    ELSE IF q.resp.status = 404 THEN Failed(q, ErrFileNotFound)
    ELSE IF ~q.resp.body.json THEN Failed(q, ErrDecode)
    ELSE Returned(FALSE, NoErr, <<>>, NoPathStat, q.resp.body.doc.Children,
                  q.token, q.sent)

\* Client.ReadDirectory
ReadDirectory(tok, store, filePath, x) ==
    ReadDirectoryOn(request(tok, FileURL(filePath),
                            ServerGet(store, FileURL(filePath), "list"), x))

PathStatOf_DirBackPack(doc) ==
    [Directory |-> doc.Directory,
     Executable |-> doc.Attributes.Executable,
     Archive |-> doc.Attributes.Archive,
     Hidden |-> doc.Attributes.Hidden,
     ReadOnly |-> doc.Attributes.ReadOnly,
     SymbolicLink |-> doc.Attributes.SymbolicLink,
     Activated |-> doc.Attributes.Activated,
     TimeStamp |-> doc.LocalTimeStamp]

\* Client.Stat, lines 204-238: the document decoded as a DirectoryMeta when
\* its Directory flag is set, as a File otherwise.
PathStatOf(doc) ==
    IF doc.Directory
    THEN [Directory |-> doc.Directory,
          Executable |-> doc.Attributes.Executable,
          Archive |-> doc.Attributes.Archive,
          Hidden |-> doc.Attributes.Hidden,
          ReadOnly |-> doc.Attributes.ReadOnly,
          SymbolicLink |-> doc.Attributes.SymbolicLink,
          Activated |-> FALSE,
          TimeStamp |-> doc.LocalTimeStamp]
    ELSE [Directory |-> doc.Directory,
          Executable |-> doc.Attributes.Executable,
          Archive |-> doc.Attributes.Archive,
          Hidden |-> doc.Attributes.Hidden,
          ReadOnly |-> doc.Attributes.ReadOnly,
          SymbolicLink |-> doc.Attributes.SymbolicLink,
          Activated |-> doc.Attributes.Activated,
          TimeStamp |-> doc.LocalTimeStamp]

\* Client.Stat, lines 194-238
StatOn(q) ==
    IF q.panic \/ q.err # NoErr THEN Failed(q, q.err)
    ELSE IF q.resp.status = 404 THEN Failed(q, ErrFileNotFound)
    ELSE IF ~q.resp.body.json THEN Failed(q, ErrDecode)
    ELSE Returned(FALSE, NoErr, <<>>, PathStatOf(q.resp.body.doc), <<>>,
                  q.token, q.sent)

\* Client.Stat
Stat(tok, store, filePath, x) ==
    StatOn(request(tok, FileURL(filePath),
                   ServerGet(store, FileURL(filePath), "meta"), x))

\* NewClient, lines 249-253: f is what checkCredential's handshake returned.
NewClientChecked(f) ==
    Returned(FALSE, f.err, <<>>, NoPathStat, <<>>, f.token,
             <<Sent("HEAD", InfoPath, FetchToken)>>)

NewClient_NoLookup(hostOk, h) == NewClientChecked(fetchCSRFToken("", h))

\* NewClient: host resolution (checkURIValidate), then one handshake
\* (checkCredential) on the new client, answered by h.
NewClient(hostOk, h) ==
    IF ~hostOk
    THEN Returned(FALSE, ErrLookupHost, <<>>, NoPathStat, <<>>, "", <<>>)
    ELSE NewClientChecked(fetchCSRFToken("", h))

---------------------------------------------------------------------------
(* The attribute cache and the directory cache (StatCache, DirectoryCache) *)

ModeDir == "S_IFDIR|S_IRWXU"
ModeReg == "S_IFREG|S_IRWXU"

ZeroStat ==
    [Uid |-> 0, Gid |-> 0, Mode |-> "", Size |-> 0, Ctim |-> 0, Atim |-> 0, Mtim |-> 0]

\* fuse.Getcontext(): the calling user and group.
Contexts == {[uid |-> 0, gid |-> 0], [uid |-> 1, gid |-> 1]}

StatKeys == FsPaths \cup {ContentLocation(q) : q \in FsPaths}
DirKeys == DirPaths

\* CachedDirectory.children: name -> stat
NoChildren == <<>>

Entry(value, at, ttl) == [present |-> TRUE, value |-> value, at |-> at, ttl |-> ttl]
NoStatEntry == [present |-> FALSE, value |-> ZeroStat, at |-> 0, ttl |-> 0]
NoDirEntry == [present |-> FALSE, value |-> NoChildren, at |-> 0, ttl |-> 0]

\* A cache entry is valid iff current time - recorded timestamp < time-to-live.
Valid(e, t) == e.present /\ t - e.at < e.ttl

\* PreStatCacheSeconds / PreDirectoryCacheSeconds
PreloadWithTTL(cache, key, value, ttl) ==
    [cache EXCEPT ![key] = Entry(value, now, ttl)]

---------------------------------------------------------------------------
(* package fs: the filesystem adapter HanaFS *)

\* The one element of a singleton set.  Only({F(v) : v \in {e}}) is F of the
\* value of e, e being evaluated once.
Only(S) == CHOOSE r \in S : TRUE

isNotExist(list, path) == \E i \in 1..Len(list) : list[i] = path

notExist_Forget(list, path) == list

notExist(list, path) ==
    IF ~isNotExist(list, path) THEN Append(list, path) ELSE list

\* HanaFS.removeFromNotExist: the loop runs only when path is not listed, so
\* it finds nothing to remove.
removeFromNotExist(list, path) ==
    IF ~isNotExist(list, path)
    THEN SelectSeq(list, LAMBDA e : e # path)
    ELSE list

Called(fn, path) == [fn |-> fn, path |-> path]

\* What a cache lookup or a provider returns: panic (it never returned), err,
\* the stat or the children, both caches and Client.token afterwards, the
\* calls of the client's API it made and the requests those sent; kind is
\* what Client.Stat reported ("dir", "file", or "none").
Got(panic, err, stat, children, sc, dc, tok, calls, sent, kind) ==
    [panic |-> panic, err |-> err, stat |-> stat, children |-> children,
     sc |-> sc, dc |-> dc, token |-> tok, calls |-> calls, sent |-> sent,
     kind |-> kind]

\* HanaFS.getStat / HanaFS.getDir, the fuse.Stat_t they build.
NewStat(ctx, mode, size) ==
    [Uid |-> ctx.uid, Gid |-> ctx.gid, Mode |-> mode, Size |-> size,
     Ctim |-> now, Atim |-> now, Mtim |-> now]

\* HanaFS.getStat, lines 460-462
getStatStored(path, s, tok, calls, sent, kind) ==
    Got(FALSE, NoErr, s, NoChildren,
        PreloadWithTTL(statCache, path, s, DefaultRemoteCacheSeconds),
        dirCache, tok, calls, sent, kind)

\* HanaFS.getStat, lines 452-462: rf is what the size-fill ReadFile returned.
getStatSized(path, ctx, st, rf) ==
    IF rf.panic
    THEN Got(TRUE, NoErr, ZeroStat, NoChildren, statCache, dirCache, rf.token,
             <<Called("Stat", path), Called("ReadFile", path)>>,
             st.sent \o rf.sent, "file")
    ELSE getStatStored(path,
                       NewStat(ctx, ModeReg,
                               IF rf.err = NoErr THEN Len(rf.data) ELSE 0),
                       rf.token,
                       <<Called("Stat", path), Called("ReadFile", path)>>,
                       st.sent \o rf.sent, "file")

\* HanaFS.getStat, lines 436-462: st is what Client.Stat returned.
getStatOn(path, ctx, x2, st) ==
    IF st.panic \/ st.err # NoErr
    THEN Got(st.panic, st.err, ZeroStat, NoChildren, statCache, dirCache,
             st.token, <<Called("Stat", path)>>, st.sent, "none")
    ELSE IF st.stat.Directory
    THEN getStatStored(path, NewStat(ctx, ModeDir, 0), st.token,
                       <<Called("Stat", path)>>, st.sent, "dir")
    ELSE Only({getStatSized(path, ctx, st, rf) :
                  rf \in {ReadFile(st.token, remote, path, x2)}})

getStatUnsized(path, ctx, st) ==
    IF st.panic \/ st.err # NoErr
    THEN Got(st.panic, st.err, ZeroStat, NoChildren, statCache, dirCache,
             st.token, <<Called("Stat", path)>>, st.sent, "none")
    ELSE getStatStored(path,
                       NewStat(ctx, IF st.stat.Directory THEN ModeDir ELSE ModeReg, 0),
                       st.token, <<Called("Stat", path)>>, st.sent,
                       IF st.stat.Directory THEN "dir" ELSE "file")

getStat_NoSizeFill(path, ctx, x1, x2) ==
    Only({getStatUnsized(path, ctx, st) : st \in {Stat(token, remote, path, x1)}})

\* HanaFS.getStat, the attribute cache's provider; x1 and x2 are the exchanges
\* of its Stat and of its ReadFile.
getStat(path, ctx, x1, x2) ==
    Only({getStatOn(path, ctx, x2, st) : st \in {Stat(token, remote, path, x1)}})

\* StatCache.GetStat on a miss: g is what the provider returned; a result is
\* stored with a fresh timestamp, an error is propagated and not cached.
GetStatMiss(path, g) ==
    IF g.panic \/ g.err # NoErr THEN g
    ELSE [g EXCEPT !.sc = PreloadWithTTL(g.sc, path, g.stat,
                                         DefaultRemoteCacheSeconds)]

\* StatCache.GetStat
GetStat(path, ctx, x1, x2) ==
    IF Valid(statCache[path], now)
    THEN Got(FALSE, NoErr, statCache[path].value, NoChildren, statCache,
             dirCache, token, <<>>, <<>>, "none")
    ELSE Only({GetStatMiss(path, g) : g \in {getStat(path, ctx, x1, x2)}})

\* HanaFS.getDir, lines 416-420: the child's stat goes into the listing under
\* its name and into the attribute cache under its ContentLocation.
getDirStored(acc, hanaChild, s) ==
    [acc EXCEPT !.children = [n \in DOMAIN acc.children \cup {hanaChild.Name} |->
                                 IF n = hanaChild.Name THEN s ELSE acc.children[n]],
                !.sc = PreloadWithTTL(acc.sc, hanaChild.ContentLocation, s,
                                      DefaultRemoteCacheSeconds)]

\* HanaFS.getDir, lines 407-420: rf is what the size-fill ReadFile(path)
\* returned, path being the directory that getDir lists.
getDirSized(path, ctx, acc, hanaChild, rf) ==
    IF rf.panic
    THEN [acc EXCEPT !.panic = TRUE, !.token = rf.token,
                     !.calls = Append(acc.calls, Called("ReadFile", path)),
                     !.sent = acc.sent \o rf.sent]
    ELSE [getDirStored(acc, hanaChild,
                       NewStat(ctx, ModeReg,
                               IF rf.err = NoErr THEN Len(rf.data) ELSE 0))
            EXCEPT !.token = rf.token,
                   !.calls = Append(acc.calls, Called("ReadFile", path)),
                   !.sent = acc.sent \o rf.sent]

\* HanaFS.getDir, lines 392-422: one iteration of the loop over dir.Children.
getDirChild(path, ctx, acc, hanaChild, xs) ==
    IF acc.panic THEN acc
    ELSE IF hanaChild.Directory
    THEN getDirStored(acc, hanaChild, NewStat(ctx, ModeDir, 0))
    ELSE Only({getDirSized(path, ctx, acc, hanaChild, rf) :
                  rf \in {ReadFile(acc.token, remote, path, xs[hanaChild.Name])}})

\* HanaFS.getDir, lines 392-422: the loop over dir.Children.
getDirChildren(path, ctx, xs, rd) ==
    LET loop[i \in 0..Len(rd.children)] ==
            IF i = 0
            THEN Got(FALSE, NoErr, ZeroStat, NoChildren, statCache, dirCache,
                     rd.token, <<Called("ReadDirectory", path)>>, rd.sent, "none")
            ELSE getDirChild(path, ctx, loop[i - 1], rd.children[i], xs)
    IN  loop[Len(rd.children)]

\* HanaFS.getDir, lines 424-428
getDirLoaded(path, acc) ==
    IF acc.panic THEN acc
    ELSE [acc EXCEPT !.dc = PreloadWithTTL(acc.dc, path, acc.children,
                                           DefaultRemoteCacheSeconds)]

\* HanaFS.getDir, lines 383-428: rd is what Client.ReadDirectory returned.
getDirOn(path, ctx, xs, rd) ==
    IF rd.panic \/ rd.err # NoErr
    THEN Got(rd.panic, rd.err, ZeroStat, NoChildren, statCache, dirCache,
             rd.token, <<Called("ReadDirectory", path)>>, rd.sent, "none")
    ELSE Only({getDirLoaded(path, acc) : acc \in {getDirChildren(path, ctx, xs, rd)}})

\* HanaFS.getDir, the directory cache's provider; x1 is the exchange of its
\* ReadDirectory and xs[name] the exchange of the size-fill read for a child.
getDir(path, ctx, x1, xs) ==
    Only({getDirOn(path, ctx, xs, rd) : rd \in {ReadDirectory(token, remote, path, x1)}})

\* DirectoryCache.GetDir on a miss
GetDirMiss(path, g) ==
    IF g.panic \/ g.err # NoErr THEN g
    ELSE [g EXCEPT !.dc = PreloadWithTTL(g.dc, path, g.children,
                                         DefaultRemoteCacheSeconds)]

\* DirectoryCache.GetDir
GetDir(path, ctx, x1, xs) ==
    IF Valid(dirCache[path], now)
    THEN Got(FALSE, NoErr, ZeroStat, dirCache[path].value, statCache,
             dirCache, token, <<>>, <<>>, "none")
    ELSE Only({GetDirMiss(path, g) : g \in {getDir(path, ctx, x1, xs)}})

FillOwner_Always(stat, ctx) == [stat EXCEPT !.Uid = ctx.uid, !.Gid = ctx.gid]

\* HanaFS.Getattr, lines 344-348
FillOwner(stat, ctx) ==
    IF stat.Uid = 0 THEN [stat EXCEPT !.Uid = ctx.uid, !.Gid = ctx.gid] ELSE stat

---------------------------------------------------------------------------
(* The filesystem operations, as the bridging layer calls them *)

OkExchange == Exchange("ok", NoHead, "ok")
FsFaults == {"ok", "csrf", "down", "net"}
FsHeads == {Resp(200, "t2", ErrorBody), Resp(401, "", ErrorBody)}
FsRetries == {"ok"}
FsExchanges == Exchanges(FsFaults, FsHeads, FsRetries)

Gets(sent) == Cardinality({i \in 1..Len(sent) : sent[i].method = "GET"})
Heads(sent) == Cardinality({i \in 1..Len(sent) : sent[i].method = "HEAD"})

\* What the operation before the last one was, when it bears on the last one.
NoPrev ==
    [op |-> "none", ok |-> FALSE, at |-> 0, attr |-> ZeroStat,
     notFound |-> FALSE, fetched |-> FALSE]

\* The last operation: its arguments, the state it met (at: the clock,
\* listed: path was in notExistList, hit / stale: the cache held a valid /
\* an expired entry for path, exists: the store held path), what it did
\* (lookups of the cache, calls of the client, requests sent, kind: what
\* Client.Stat reported, notFound: the lookup failed with ErrFileNotFound,
\* fetched: the provider ran to success, was: notExistList before an
\* operation on the list) and what it returned (rc, panic:
\* it never returned, attr: *s, fills: the calls of fill, children: the name
\* and stat each call of fill received,
\* buff: the caller's buffer afterwards, 0 where nothing was copied).
NoOp ==
    [op |-> "none", path |-> "", ctx |-> [uid |-> 0, gid |-> 0], at |-> 0,
     listed |-> FALSE, hit |-> FALSE, stale |-> FALSE, exists |-> FALSE,
     lookups |-> 0, calls |-> <<>>, gets |-> 0, heads |-> 0, kind |-> "none",
     notFound |-> FALSE, fetched |-> FALSE,
     rc |-> 0, panic |-> FALSE, attr |-> ZeroStat, children |-> NoChildren,
     contents |-> <<>>, buflen |-> 0, ofst |-> 0, buff |-> <<>>,
     fills |-> 0, was |-> <<>>, prev |-> NoPrev]

\* The part of the last operation o that a Getattr of path follows.
PrevOf(o, path) ==
    IF o.panic THEN NoPrev
    ELSE IF o.op = "Getattr" /\ o.path = path
    THEN [op |-> "Getattr", ok |-> o.rc = 0, at |-> o.at, attr |-> o.attr,
          notFound |-> o.notFound, fetched |-> o.fetched]
    ELSE IF o.op = "Readdir" /\ o.rc = 0
            /\ \E n \in DOMAIN o.children : ChildPath(o.path, n) = path
    THEN [op |-> "Readdir", ok |-> TRUE, at |-> o.at,
          attr |-> o.children[CHOOSE n \in DOMAIN o.children :
                                 ChildPath(o.path, n) = path],
          notFound |-> FALSE, fetched |-> o.fetched]
    ELSE NoPrev

Began(op, path, ctx, entry) ==
    [NoOp EXCEPT !.op = op, !.path = path, !.ctx = ctx, !.at = now,
                 !.listed = isNotExist(notExistList, path),
                 !.hit = Valid(entry, now),
                 !.stale = entry.present /\ ~Valid(entry, now),
                 !.exists = remote[path] # Absent]

\* What a lookup g adds to the record o of the operation.
Observed(o, g) ==
    [o EXCEPT !.lookups = 1, !.calls = g.calls, !.gets = Gets(g.sent),
              !.heads = Heads(g.sent), !.kind = g.kind, !.panic = g.panic,
              !.notFound = ~g.panic /\ g.err = ErrFileNotFound,
              !.fetched = ~g.panic /\ g.err = NoErr /\ g.calls # <<>>]

\* The state an operation leaves: Client.token, notExistList, both caches,
\* and the record of the operation.
Done(tok, list, sc, dc, o) ==
    [token |-> tok, list |-> list, sc |-> sc, dc |-> dc, op |-> o]

\* HanaFS.Getattr, lines 339-352: g is what statCache.GetStat returned.  The
\* stat is the cached record itself, so the owner is filled in the cache too.
GetattrGot(path, ctx, o, g) ==
    IF g.panic
    THEN Done(g.token, notExistList, g.sc, g.dc, Observed(o, g))
    ELSE IF g.err # NoErr
    THEN Done(g.token, notExist(notExistList, path), g.sc, g.dc,
              [Observed(o, g) EXCEPT !.rc = -ENOENT])
    ELSE Done(g.token, notExistList,
              [g.sc EXCEPT ![path].value = FillOwner(g.stat, ctx)], g.dc,
              [Observed(o, g) EXCEPT !.rc = 0, !.attr = FillOwner(g.stat, ctx)])

\* HanaFS.Getattr
GetattrDone(path, ctx, x1, x2) ==
    IF isNotExist(notExistList, path)
    THEN Done(token, notExistList, statCache, dirCache,
              [Began("Getattr", path, ctx, statCache[path])
                 EXCEPT !.rc = -ENOENT, !.prev = PrevOf(lastOp, path)])
    ELSE Only({GetattrGot(path, ctx, o, g) :
                  o \in {[Began("Getattr", path, ctx, statCache[path])
                            EXCEPT !.prev = PrevOf(lastOp, path)]},
                  g \in {GetStat(path, ctx, x1, x2)}})

\* Whether Getattr(path) reaches the size-fill ReadFile of getStat.
ReadsFile(st) == ~st.panic /\ st.err = NoErr /\ ~st.stat.Directory
StatReadsFile(path, x1) ==
    /\ ~isNotExist(notExistList, path)
    /\ ~Valid(statCache[path], now)
    /\ ReadsFile(Stat(token, remote, path, x1))

Crashed(o) == IF o.panic THEN "crashed" ELSE "ready"

\* One call of Getattr, the environment drawing the exchanges from xset.
GetattrWith(path, ctx, xset) ==
    /\ client = "ready"
    /\ \E x1 \in xset :
       \E x2 \in IF StatReadsFile(path, x1) THEN xset ELSE {OkExchange} :
       \E d \in {GetattrDone(path, ctx, x1, x2)} :
          /\ token' = d.token
          /\ notExistList' = d.list
          /\ statCache' = d.sc
          /\ dirCache' = d.dc
          /\ lastOp' = d.op
          /\ client' = Crashed(d.op)
    /\ UNCHANGED <<remote, now, call, threads>>

Getattr(path, ctx) == GetattrWith(path, ctx, FsExchanges)

ReaddirGot_FilesOnly(path, o, g) ==
    IF g.panic
    THEN Done(g.token, notExistList, g.sc, g.dc, Observed(o, g))
    ELSE IF g.err # NoErr
    THEN Done(g.token, notExistList, g.sc, g.dc,
              [Observed(o, g) EXCEPT !.rc = -ENOENT])
    ELSE Done(g.token, notExistList, g.sc, g.dc,
              [Observed(o, g) EXCEPT
                  !.rc = 0,
                  !.fills = Cardinality({n \in DOMAIN g.children :
                                            g.children[n].Mode = ModeReg}),
                  !.children = [n \in {m \in DOMAIN g.children :
                                          g.children[m].Mode = ModeReg}
                                  |-> g.children[n]]])

\* HanaFS.Readdir, lines 318-328: g is what dirCache.GetDir returned; the
\* range over the map dir.children visits every name once.
ReaddirGot(path, o, g) ==
    IF g.panic
    THEN Done(g.token, notExistList, g.sc, g.dc, Observed(o, g))
    ELSE IF g.err # NoErr
    THEN Done(g.token, notExistList, g.sc, g.dc,
              [Observed(o, g) EXCEPT !.rc = -ENOENT])
    ELSE Done(g.token, notExistList, g.sc, g.dc,
              [Observed(o, g) EXCEPT !.rc = 0,
                                     !.fills = Cardinality(DOMAIN g.children),
                                     !.children = g.children])

\* HanaFS.Readdir
ReaddirDone(path, ctx, x1, xs) ==
    Only({ReaddirGot(path, o, g) :
             o \in {Began("Readdir", path, ctx, dirCache[path])},
             g \in {GetDir(path, ctx, x1, xs)}})

\* The names of the regular files the service lists under path.
FileNames(path) ==
    {n \in {ChildNames[i] : i \in 1..Len(ChildNames)} :
        ChildPath(path, n) \in FilePaths}

Readdir(path, ctx) ==
    /\ client = "ready"
    /\ \E x1 \in FsExchanges :
       \E xs \in [FileNames(path) -> FsExchanges] :
       \E d \in {ReaddirDone(path, ctx, x1, xs)} :
          /\ token' = d.token
          /\ notExistList' = d.list
          /\ statCache' = d.sc
          /\ dirCache' = d.dc
          /\ lastOp' = d.op
          /\ client' = Crashed(d.op)
    /\ UNCHANGED <<remote, now, call, threads>>

Min(a, b) == IF a < b THEN a ELSE b

Copied_Short(contents, buflen, ofst) ==
    IF Min(ofst + buflen, Len(contents)) <= ofst THEN <<>>
    ELSE SubSeq(contents, ofst + 1, Min(ofst + buflen, Len(contents)) - 1)

\* HanaFS.Read, lines 363-373: the bytes copy(buff, contents[ofst:endofst])
\* copies, endofst being clipped to len(contents).
Copied(contents, buflen, ofst) ==
    IF Min(ofst + buflen, Len(contents)) < ofst THEN <<>>
    ELSE SubSeq(contents, ofst + 1, Min(ofst + buflen, Len(contents)))

\* buff after copy(buff, data): data at its start, the rest as it was (0).
Buff(buflen, data) ==
    [i \in 1..buflen |-> IF i <= Len(data) THEN data[i] ELSE 0]

\* HanaFS.Read, lines 357-375: rf is what Client.ReadFile returned.
ReadGot(o, rf) ==
    IF rf.panic
    THEN Done(rf.token, notExistList, statCache, dirCache,
              [o EXCEPT !.panic = TRUE, !.calls = <<Called("ReadFile", o.path)>>,
                        !.gets = Gets(rf.sent), !.heads = Heads(rf.sent)])
    ELSE IF rf.err # NoErr
    THEN Done(rf.token, notExistList, statCache, dirCache,
              [o EXCEPT !.rc = -ENOENT, !.calls = <<Called("ReadFile", o.path)>>,
                        !.gets = Gets(rf.sent), !.heads = Heads(rf.sent),
                        !.notFound = rf.err = ErrFileNotFound])
    ELSE Done(rf.token, notExistList, statCache, dirCache,
              [o EXCEPT !.rc = Len(Copied(rf.data, o.buflen, o.ofst)),
                        !.buff = Buff(o.buflen, Copied(rf.data, o.buflen, o.ofst)),
                        !.contents = rf.data, !.fetched = TRUE,
                        !.calls = <<Called("ReadFile", o.path)>>,
                        !.gets = Gets(rf.sent), !.heads = Heads(rf.sent)])

ReadDone_Guarded(path, buflen, ofst, x) ==
    IF isNotExist(notExistList, path)
    THEN Done(token, notExistList, statCache, dirCache,
              [Began("Read", path, [uid |-> 0, gid |-> 0], NoStatEntry)
                 EXCEPT !.buflen = buflen, !.ofst = ofst,
                        !.buff = Buff(buflen, <<>>), !.rc = -ENOENT])
    ELSE Only({ReadGot(o, rf) :
                  o \in {[Began("Read", path, [uid |-> 0, gid |-> 0], NoStatEntry)
                            EXCEPT !.buflen = buflen, !.ofst = ofst,
                                   !.buff = Buff(buflen, <<>>)]},
                  rf \in {ReadFile(token, remote, path, x)}})

\* HanaFS.Read
ReadDone(path, buflen, ofst, x) ==
    Only({ReadGot(o, rf) :
             o \in {[Began("Read", path, [uid |-> 0, gid |-> 0], NoStatEntry)
                       EXCEPT !.buflen = buflen, !.ofst = ofst,
                              !.buff = Buff(buflen, <<>>)]},
             rf \in {ReadFile(token, remote, path, x)}})

Read(path, buflen, ofst) ==
    /\ client = "ready"
    /\ \E x \in FsExchanges :
       \E d \in {ReadDone(path, buflen, ofst, x)} :
          /\ token' = d.token
          /\ lastOp' = d.op
          /\ client' = Crashed(d.op)
    /\ UNCHANGED <<remote, now, notExistList, statCache, dirCache, call, threads>>

---------------------------------------------------------------------------
(* The environment: the clock and the remote store *)

\* The instants the clock is observed at.
Instants == {0, MaxTime - 1, MaxTime}

Tick ==
    /\ \E t \in Instants : t > now /\ t <= MaxTime /\ now' = t
    /\ UNCHANGED <<client, token, remote, notExistList, statCache, dirCache, call, lastOp, threads>>

\* Somebody else creates, rewrites or deletes the regular file p.
RemoteChange(p, v) ==
    /\ remote[p] # v
    /\ remote' = [remote EXCEPT ![p] = v]
    /\ UNCHANGED <<client, token, now, notExistList, statCache, dirCache, call, lastOp, threads>>

---------------------------------------------------------------------------
(* The calls of the client's API, as a test of package hana makes them *)

NoResult == Result(FALSE, NoErr, NoResp, "", <<>>)

\* The last call: its arguments, Client.token before it, the answers the
\* service had for its first attempt and for its retry, what Client.request
\* returned (q) and what the call returned (ret).
NoCall ==
    [fn |-> "none", path |-> "", hostOk |-> FALSE, h |-> NoHead,
     x |-> OkExchange, before |-> "", first |-> NoResp, second |-> NoResp,
     q |-> NoResult,
     ret |-> Returned(FALSE, NoErr, <<>>, NoPathStat, <<>>, "", <<>>)]

Logged(fn, path, x, regular, q, ret) ==
    [NoCall EXCEPT !.fn = fn, !.path = path, !.x = x, !.before = token,
                   !.first = Respond(x.first, regular),
                   !.second = Respond(x.retry, regular),
                   !.q = q, !.ret = ret]

NewClientCall(hostOk, h) ==
    /\ client # "crashed"
    /\ \E ret \in {NewClient(hostOk, h)} :
          /\ client' = IF ret.err = NoErr THEN "ready" ELSE "nil"
          /\ token' = IF ret.err = NoErr THEN ret.token ELSE ""
          /\ call' = [NoCall EXCEPT !.fn = "NewClient", !.hostOk = hostOk,
                                    !.h = h, !.ret = ret]
    /\ UNCHANGED <<remote, now, notExistList, statCache, dirCache, lastOp, threads>>

ReadFileCall(p, x) ==
    /\ client = "ready"
    /\ \E ret \in {ReadFile(token, remote, p, x)} :
          /\ token' = ret.token
          /\ client' = IF ret.panic THEN "crashed" ELSE "ready"
          /\ call' = Logged("ReadFile", p, x,
                            ServerGet(remote, FileURL(p), "content"),
                            request(token, FileURL(p),
                                    ServerGet(remote, FileURL(p), "content"), x),
                            ret)
    /\ UNCHANGED <<remote, now, notExistList, statCache, dirCache, lastOp, threads>>

ReadDirectoryCall(p, x) ==
    /\ client = "ready"
    /\ \E ret \in {ReadDirectory(token, remote, p, x)} :
          /\ token' = ret.token
          /\ client' = IF ret.panic THEN "crashed" ELSE "ready"
          /\ call' = Logged("ReadDirectory", p, x,
                            ServerGet(remote, FileURL(p), "list"),
                            request(token, FileURL(p),
                                    ServerGet(remote, FileURL(p), "list"), x),
                            ret)
    /\ UNCHANGED <<remote, now, notExistList, statCache, dirCache, lastOp, threads>>

StatCall(p, x) ==
    /\ client = "ready"
    /\ \E ret \in {Stat(token, remote, p, x)} :
          /\ token' = ret.token
          /\ client' = IF ret.panic THEN "crashed" ELSE "ready"
          /\ call' = Logged("Stat", p, x,
                            ServerGet(remote, FileURL(p), "meta"),
                            request(token, FileURL(p),
                                    ServerGet(remote, FileURL(p), "meta"), x),
                            ret)
    /\ UNCHANGED <<remote, now, notExistList, statCache, dirCache, lastOp, threads>>

---------------------------------------------------------------------------
(* Specifications *)

Threads == {1, 2}

\* No call is in progress: every thread is idle.
NoThreads ==
    [pc |-> [t \in Threads |-> "idle"],
     path |-> [t \in Threads |-> ""],
     fn |-> [t \in Threads |-> "none"],
     seen |-> [t \in Threads |-> <<>>],
     x |-> [t \in Threads |-> OkExchange],
     before |-> [t \in Threads |-> ""],
     appended |-> {}]

\* The directories exist; the regular file is absent or holds content of one
\* of the given lengths.
Stores(lens) ==
    {[p \in FsPaths |-> IF p \in DirPaths THEN 0 ELSE v] : v \in {Absent} \cup lens}

FileLens == {MaxLen}
InitRemote == remote \in Stores(FileLens)

\* The adapter after NewHanaFS(client), on a client NewClient returned.
Init ==
    /\ client = "ready"
    /\ token = "t1"
    /\ InitRemote
    /\ now = 0
    /\ notExistList = <<>>
    /\ statCache = [k \in StatKeys |-> NoStatEntry]
    /\ dirCache = [k \in DirKeys |-> NoDirEntry]
    /\ call = NoCall
    /\ lastOp = NoOp
    /\ threads = NoThreads

AttrPaths == {Root} \cup FilePaths

\* Attribute lookups while time passes and the remote store changes.
Next ==
    \/ \E p \in AttrPaths, ctx \in Contexts : Getattr(p, ctx)
    \/ Tick
    \/ \E p \in FilePaths, v \in {Absent} \cup FileLens : RemoteChange(p, v)

Spec == Init /\ [][Next]_vars

\* Attribute lookups that the service answers regularly.
FairNext ==
    \/ \E p \in FilePaths, ctx \in Contexts : GetattrWith(p, ctx, {OkExchange})
    \/ Tick
    \/ \E p \in FilePaths, v \in {Absent} \cup FileLens : RemoteChange(p, v)

\* The bridging layer keeps looking every file up.
FairSpec ==
    /\ Init
    /\ [][FairNext]_vars
    /\ \A p \in FilePaths :
          WF_vars(\E ctx \in Contexts : GetattrWith(p, ctx, {OkExchange}))

\* Directory listings followed by attribute lookups of the children.
DirNext ==
    \/ \E ctx \in Contexts : Readdir(Root, ctx)
    \/ \E p \in FilePaths, ctx \in Contexts : GetattrWith(p, ctx, {OkExchange})
    \/ Tick

DirSpec == Init /\ [][DirNext]_vars

\* Reads of files and directories.
ReadNext ==
    \/ \E p \in FsPaths, buflen \in 0..MaxBuf, ofst \in 0..MaxOfst :
          Read(p, buflen, ofst)
    \/ \E p \in FilePaths, v \in {Absent} \cup 0..MaxLen : RemoteChange(p, v)

ReadInit ==
    /\ client = "ready"
    /\ token = "t1"
    /\ remote \in Stores(0..MaxLen)
    /\ now = 0
    /\ notExistList = <<>>
    /\ statCache = [k \in StatKeys |-> NoStatEntry]
    /\ dirCache = [k \in DirKeys |-> NoDirEntry]
    /\ call = NoCall
    /\ lastOp = NoOp
    /\ threads = NoThreads

ReadSpec == ReadInit /\ [][ReadNext]_vars

\* Reads of paths that attribute lookups have cached or listed as absent.
BypassNext ==
    \/ \E p \in FilePaths, ctx \in Contexts : GetattrWith(p, ctx, {OkExchange})
    \/ \E p \in FsPaths : Read(p, MaxBuf, 0)
    \/ \E p \in FilePaths, v \in {Absent} \cup FileLens : RemoteChange(p, v)
    \/ Tick

BypassSpec == Init /\ [][BypassNext]_vars

\* The client on its own: no client yet, then calls of its API.
ClientInit ==
    /\ client = "nil"
    /\ token = ""
    /\ InitRemote
    /\ now = 0
    /\ notExistList = <<>>
    /\ statCache = [k \in StatKeys |-> NoStatEntry]
    /\ dirCache = [k \in DirKeys |-> NoDirEntry]
    /\ call = NoCall
    /\ lastOp = NoOp
    /\ threads = NoThreads

ClientNext ==
    \/ \E hostOk \in BOOLEAN, h \in HeadResponses : NewClientCall(hostOk, h)
    \/ \E p \in FsPaths, x \in ClientExchanges : ReadFileCall(p, x)
    \/ \E p \in FsPaths, x \in ClientExchanges : ReadDirectoryCall(p, x)
    \/ \E p \in FsPaths, x \in ClientExchanges : StatCall(p, x)

ClientSpec == ClientInit /\ [][ClientNext]_vars

---------------------------------------------------------------------------
(* Concurrent calls of Getattr: the bridging layer runs callbacks on several
   threads, and HanaFS holds no lock.  Each access of f.notExistList is a
   step of its own. *)

At(t, pc) == threads.pc[t] = pc

Goes(t, pc) == [threads EXCEPT !.pc[t] = pc]

RaceContext == [uid |-> 1, gid |-> 1]
RaceExchanges == Exchanges({"ok", "down"}, FsHeads, FsRetries)

\* A thread enters Getattr(path).
GetattrBegin(t, path) ==
    /\ client = "ready"
    /\ At(t, "idle")
    /\ threads' = [Goes(t, "check") EXCEPT !.path[t] = path]
    /\ UNCHANGED <<client, token, remote, now, notExistList, statCache, dirCache,
                   call, lastOp>>

\* HanaFS.Getattr, line 333: isNotExist reads the list.
GetattrCheck(t) ==
    /\ At(t, "check")
    /\ threads' = Goes(t, IF isNotExist(notExistList, threads.path[t])
                          THEN "idle" ELSE "lookup")
    /\ UNCHANGED <<client, token, remote, now, notExistList, statCache, dirCache,
                   call, lastOp>>

\* HanaFS.Getattr, lines 337-352 but for notExist: the lookup, and on success
\* the owner filled in the cached record.
GetattrLookup(t) ==
    /\ At(t, "lookup")
    /\ \E x1 \in RaceExchanges :
       \E x2 \in IF StatReadsFile(threads.path[t], x1) THEN RaceExchanges ELSE {OkExchange} :
       \E g \in {GetStat(threads.path[t], RaceContext, x1, x2)} :
          /\ token' = g.token
          /\ dirCache' = g.dc
          /\ statCache' = IF g.err # NoErr THEN g.sc
                          ELSE [g.sc EXCEPT ![threads.path[t]].value =
                                              FillOwner(g.stat, RaceContext)]
          /\ threads' = Goes(t, IF g.err # NoErr THEN "recheck" ELSE "idle")
    /\ UNCHANGED <<client, remote, now, notExistList, call, lastOp>>

\* HanaFS.notExist, line 288: isNotExist reads the list.
notExistCheck(t) ==
    /\ At(t, "recheck")
    /\ threads' = Goes(t, IF isNotExist(notExistList, threads.path[t])
                          THEN "idle" ELSE "load")
    /\ UNCHANGED <<client, token, remote, now, notExistList, statCache, dirCache,
                   call, lastOp>>

\* HanaFS.notExist, line 289: append reads the slice.
notExistLoad(t) ==
    /\ At(t, "load")
    /\ threads' = [Goes(t, "store") EXCEPT !.seen[t] = notExistList]
    /\ UNCHANGED <<client, token, remote, now, notExistList, statCache, dirCache,
                   call, lastOp>>

\* HanaFS.notExist, line 289: the slice with the path appended is assigned.
notExistStore(t) ==
    /\ At(t, "store")
    /\ notExistList' = Append(threads.seen[t], threads.path[t])
    /\ threads' = [Goes(t, "idle") EXCEPT !.seen[t] = <<>>,
                                         !.appended = @ \cup {threads.path[t]}]
    /\ UNCHANGED <<client, token, remote, now, statCache, dirCache, call, lastOp>>

RaceNext ==
    \/ \E t \in Threads, path \in AttrPaths : GetattrBegin(t, path)
    \/ \E t \in Threads : GetattrCheck(t)
    \/ \E t \in Threads : GetattrLookup(t)
    \/ \E t \in Threads : notExistCheck(t)
    \/ \E t \in Threads : notExistLoad(t)
    \/ \E t \in Threads : notExistStore(t)

RaceSpec == Init /\ [][RaceNext]_vars

---------------------------------------------------------------------------
(* Concurrent calls of the client: Client holds no lock.  Each access of
   c.token is a step of its own. *)

TokenExchanges == Exchanges({"ok", "csrf"}, FsHeads, FsRetries)

\* The query of the request that ReadFile, ReadDirectory or Stat sends.
QueryOf(fn) ==
    CASE fn = "ReadFile"      -> "content"
      [] fn = "ReadDirectory" -> "list"
      [] OTHER                -> "meta"

\* A thread enters ReadFile, ReadDirectory or Stat, and so Client.request.
requestBegin(t, fn, path) ==
    /\ client = "ready"
    /\ At(t, "idle")
    /\ threads' = [Goes(t, "header") EXCEPT !.path[t] = path, !.fn[t] = fn]
    /\ UNCHANGED <<client, token, remote, now, notExistList, statCache, dirCache,
                   call, lastOp>>

\* Client.request, lines 53-56: the header is built, which reads c.token.
requestHeader(t) ==
    /\ At(t, "header")
    /\ threads' = [Goes(t, "send") EXCEPT !.before[t] = token]
    /\ UNCHANGED <<client, token, remote, now, notExistList, statCache, dirCache,
                   call, lastOp>>

\* Client.request, lines 61-63: the first attempt and the test of its response.
requestSend(t, x) ==
    /\ At(t, "send")
    /\ \E r1 \in {Respond(x.first,
                          ServerGet(remote, FileURL(threads.path[t]),
                                    QueryOf(threads.fn[t])))} :
          threads' = [Goes(t, IF ~r1.err /\ isCSRFTokenError(r1)
                              THEN "refresh" ELSE "idle")
                        EXCEPT !.x[t] = x]
    /\ UNCHANGED <<client, token, remote, now, notExistList, statCache, dirCache,
                   call, lastOp>>

\* Client.request, line 65, and Client.fetchCSRFToken: line 101 writes c.token.
requestRefresh(t) ==
    /\ At(t, "refresh")
    /\ \E f \in {fetchCSRFToken(token, threads.x[t].refresh)} :
          /\ token' = f.token
          /\ threads' = Goes(t, IF f.err = NoErr THEN "retry" ELSE "idle")
    /\ UNCHANGED <<client, remote, now, notExistList, statCache, dirCache, call, lastOp>>

\* Client.request, lines 69-76: the request is sent again, with the header
\* built at lines 53-56.
requestRetry(t) ==
    /\ At(t, "retry")
    /\ threads' = Goes(t, "idle")
    /\ UNCHANGED <<client, token, remote, now, notExistList, statCache, dirCache,
                   call, lastOp>>

TokenNext ==
    \/ \E t \in Threads, fn \in {"ReadFile", "ReadDirectory", "Stat"}, path \in FsPaths :
          requestBegin(t, fn, path)
    \/ \E t \in Threads : requestHeader(t)
    \/ \E t \in Threads, x \in TokenExchanges : requestSend(t, x)
    \/ \E t \in Threads : requestRefresh(t)
    \/ \E t \in Threads : requestRetry(t)

TokenSpec == Init /\ [][TokenNext]_vars

---------------------------------------------------------------------------
(* Stat on any metadata document the service may return *)

Documents ==
    {[Directory |-> d, Attributes |-> a, LocalTimeStamp |-> ts, Children |-> <<>>] :
        d \in BOOLEAN,
        a \in [{"Executable", "Archive", "Hidden", "ReadOnly", "SymbolicLink",
                "Activated"} -> BOOLEAN],
        ts \in 0..MaxStamp}

\* Stat(p), the service answering 200 with the document doc.
StatDocument(p, doc) ==
    /\ client = "ready"
    /\ \E r \in {Resp(200, "", [bytes |-> Bytes(DirDocLen), json |-> TRUE, doc |-> doc])} :
       \E q \in {request(token, FileURL(p), r, OkExchange)} :
          call' = [NoCall EXCEPT !.fn = "Stat", !.path = p, !.before = token,
                                 !.first = r, !.second = r, !.q = q,
                                 !.ret = StatOn(q)]
    /\ UNCHANGED <<client, token, remote, now, notExistList, statCache, dirCache,
                   lastOp, threads>>

DocumentNext == \E p \in FsPaths, doc \in Documents : StatDocument(p, doc)

DocumentSpec == Init /\ [][DocumentNext]_vars

---------------------------------------------------------------------------
(* The operations on the negative-existence list, on any list *)

\* The lists of at most MaxList paths, a path possibly more than once.
Lists == UNION {[1..n -> FsPaths] : n \in 0..MaxList}

removeFromNotExistCall(path) ==
    /\ notExistList' = removeFromNotExist(notExistList, path)
    /\ lastOp' = [NoOp EXCEPT !.op = "removeFromNotExist", !.path = path,
                              !.listed = isNotExist(notExistList, path),
                              !.was = notExistList]
    /\ UNCHANGED <<client, token, remote, now, statCache, dirCache, call, threads>>

notExistCall(path) ==
    /\ Len(notExistList) < MaxList
    /\ notExistList' = notExist(notExistList, path)
    /\ lastOp' = [NoOp EXCEPT !.op = "notExist", !.path = path,
                              !.listed = isNotExist(notExistList, path),
                              !.was = notExistList]
    /\ UNCHANGED <<client, token, remote, now, statCache, dirCache, call, threads>>

ListInit ==
    /\ client = "ready"
    /\ token = "t1"
    /\ InitRemote
    /\ now = 0
    /\ notExistList \in Lists
    /\ statCache = [k \in StatKeys |-> NoStatEntry]
    /\ dirCache = [k \in DirKeys |-> NoDirEntry]
    /\ call = NoCall
    /\ lastOp = NoOp
    /\ threads = NoThreads

ListNext ==
    \/ \E path \in FsPaths : removeFromNotExistCall(path)
    \/ \E path \in FsPaths : notExistCall(path)

ListSpec == ListInit /\ [][ListNext]_vars

---------------------------------------------------------------------------
(* Properties of the client *)

RequestCalls == {"ReadFile", "ReadDirectory", "Stat"}

\* The CSRF-required signal: 403 with x-csrf-token 'required' in any case.
CsrfRequired(r) ==
    ~r.err /\ r.status = 403 /\ r.csrf \in {"required", "Required", "REQUIRED"}

\* C1: a call of Client.request refreshes the token exactly when its first
\* response is the CSRF-required signal, and then once; it re-sends the
\* request exactly when that refresh succeeded, and then once, after the
\* refresh; the caller receives the retry's response; nothing else (404, 500,
\* a 403 without the header, a rejected retry) causes a refresh or a retry.
C1_RefreshAndRetryOnlyOnSignal ==
    call.fn \in RequestCalls =>
        /\ Heads(call.q.sent) = (IF CsrfRequired(call.first) THEN 1 ELSE 0)
        /\ Gets(call.q.sent) =
              (IF CsrfRequired(call.first) /\ HeadGrants(call.x.refresh) THEN 2 ELSE 1)
        /\ call.q.sent[1].method = "GET"
        /\ Heads(call.q.sent) = 1 => call.q.sent[2].method = "HEAD"
        /\ Gets(call.q.sent) = 2 =>
              /\ call.q.sent[3].method = "GET"
              /\ call.q.sent[3].url = call.q.sent[1].url
              /\ ~call.second.err => call.q.err = NoErr /\ call.q.resp = call.second

C1_Witness ==
    /\ call.fn \in RequestCalls
    /\ CsrfRequired(call.first)
    /\ Gets(call.q.sent) = 2
    /\ Heads(call.q.sent) = 1
    /\ call.second.status = 200
    /\ call.q.resp = call.second
    /\ call.ret.err = NoErr

\* C2: the request that Client.request re-sends after a successful refresh
\* carries in x-csrf-token the token the refresh stored in Client.token.
C2_RetryCarriesNewToken ==
    (call.fn \in RequestCalls /\ Gets(call.q.sent) = 2) =>
        call.q.sent[3].token = call.q.token

\* C9: NewClient returns a client exactly when the host resolved and the one
\* handshake succeeded, the token of a returned client is neither empty nor
\* 'unsafe', a failure returns an error and no client, and no handshake is
\* sent when the host does not resolve.
C9_NewClientValidTokenOrError ==
    call.fn = "NewClient" =>
        /\ (call.ret.err = NoErr) <=> (call.hostOk /\ HeadGrants(call.h))
        /\ (client = "ready") <=> (call.ret.err = NoErr)
        /\ client \in {"ready", "nil"}
        /\ client = "ready" => token # "" /\ token # UnsafeToken /\ token = call.h.csrf
        /\ Heads(call.ret.sent) = (IF call.hostOk THEN 1 ELSE 0)
        /\ Gets(call.ret.sent) = 0

C9_Witness ==
    /\ call.fn = "NewClient"
    /\ call.hostOk
    /\ client = "ready"
    /\ token = "t2"
    /\ call.h.status = 503

\* The error of a failed handshake, by the status of its response.
StatusError(status) ==
    IF status \in 300..399 THEN ErrRedirect
    ELSE IF status \in 400..499 THEN ErrNotAccepted
    ELSE IF status \in 500..599 THEN ErrServerDown
    ELSE ErrFetchToken

\* C10: a handshake that got a response succeeds exactly when x-csrf-token is
\* neither empty nor 'unsafe', and otherwise fails with the error of its
\* status (3xx redirect, 4xx not accepted, 5xx server down, else generic);
\* Client.request returns the error of a failed refresh at once, without
\* re-sending the request.
C10_HandshakeOutcome ==
    /\ (call.fn = "NewClient" /\ call.hostOk /\ ~call.h.err) =>
          call.ret.err = (IF call.h.csrf # "" /\ call.h.csrf # "unsafe"
                          THEN NoErr ELSE StatusError(call.h.status))
    /\ (call.fn \in RequestCalls /\ CsrfRequired(call.first) /\ ~call.x.refresh.err) =>
          IF call.x.refresh.csrf # "" /\ call.x.refresh.csrf # "unsafe"
          THEN /\ call.q.token = call.x.refresh.csrf
               /\ Gets(call.q.sent) = 2
          ELSE /\ call.q.err = StatusError(call.x.refresh.status)
               /\ call.ret.err = call.q.err
               /\ call.q.token = call.before
               /\ Gets(call.q.sent) = 1
               /\ Len(call.q.sent) = 2

C10_Witness ==
    /\ call.fn \in RequestCalls
    /\ CsrfRequired(call.first)
    /\ call.x.refresh.status = 300
    /\ call.x.refresh.csrf = ""
    /\ call.ret.err = ErrRedirect
    /\ Gets(call.q.sent) = 1

---------------------------------------------------------------------------
(* Properties of the adapter *)

\* C3: a Getattr whose lookup failed on Stat's 404 returns -ENOENT and leaves
\* the path in notExistList; a Getattr of a listed path returns -ENOENT
\* without a cache lookup, a call of the client or a request; and a listed
\* path stays listed, so this holds for every later Getattr of it.
C3_NotFoundIsRemembered ==
    /\ [](/\ (lastOp.op = "Getattr" /\ lastOp.notFound) =>
                /\ lastOp.rc = -ENOENT
                /\ isNotExist(notExistList, lastOp.path)
          /\ (lastOp.op = "Getattr" /\ lastOp.listed) =>
                /\ lastOp.rc = -ENOENT
                /\ lastOp.lookups = 0
                /\ lastOp.calls = <<>>
                /\ lastOp.gets = 0 /\ lastOp.heads = 0)
    /\ [][\A p \in FsPaths :
             isNotExist(notExistList, p) => isNotExist(notExistList', p)]_vars

C3_Witness ==
    /\ lastOp.op = "Getattr"
    /\ lastOp.listed
    /\ lastOp.prev.op = "Getattr"
    /\ lastOp.prev.notFound
    /\ lastOp.rc = -ENOENT
    /\ lastOp.at > lastOp.prev.at

\* C4: a listed path that exists on the remote store again is eventually
\* looked up with success and leaves notExistList (unless it vanishes again).
C4_ListedPathRecovers ==
    \A p \in FilePaths :
        (isNotExist(notExistList, p) /\ remote[p] # Absent)
            ~> (~isNotExist(notExistList, p) \/ remote[p] = Absent)

\* C5: after a directory fetch succeeded, the directory cache holds the
\* parent and the attribute cache holds every child under the child's own
\* path, so a Getattr of a child within the TTL sends no request.
C5_ChildrenCachedUnderOwnPath ==
    /\ (lastOp.op = "Readdir" /\ lastOp.fetched) =>
          /\ dirCache[lastOp.path].present
          /\ \A n \in DOMAIN lastOp.children :
                statCache[ChildPath(lastOp.path, n)].present
    /\ (/\ lastOp.op = "Getattr"
        /\ lastOp.prev.op = "Readdir"
        /\ lastOp.prev.fetched
        /\ lastOp.at - lastOp.prev.at < DefaultRemoteCacheSeconds) =>
          /\ lastOp.rc = 0
          /\ lastOp.gets + lastOp.heads = 0

\* The second of two Getattr of one path: the first succeeded and the cache
\* still holds a valid entry.
SecondWithinTTL ==
    /\ lastOp.op = "Getattr"
    /\ lastOp.prev.op = "Getattr"
    /\ lastOp.prev.ok
    /\ lastOp.hit

\* C6 as stated: the second Getattr within the TTL sends no request and
\* returns a record identical to the first.
C6_Original ==
    SecondWithinTTL =>
        /\ lastOp.rc = 0
        /\ lastOp.gets + lastOp.heads = 0
        /\ lastOp.attr = lastOp.prev.attr

\* C6: the second Getattr within the TTL sends no request and returns the
\* record of the first, except that an owner the first left at zero is
\* filled from the context of the second call.
C6_SecondGetattrFromCache ==
    SecondWithinTTL =>
        /\ lastOp.rc = 0
        /\ lastOp.gets + lastOp.heads = 0
        /\ lastOp.calls = <<>>
        /\ lastOp.attr =
              (IF lastOp.prev.attr.Uid = 0
               THEN [lastOp.prev.attr EXCEPT !.Uid = lastOp.ctx.uid,
                                             !.Gid = lastOp.ctx.gid]
               ELSE lastOp.prev.attr)

C6_Witness ==
    /\ SecondWithinTTL
    /\ lastOp.at > lastOp.prev.at
    /\ lastOp.prev.attr.Uid = 0
    /\ lastOp.attr.Uid = 1
    /\ lastOp.attr.Mode = ModeReg

\* C7 as stated: the Getattr that meets an expired entry sends exactly one
\* request.
C7_Original ==
    (lastOp.op = "Getattr" /\ lastOp.stale) => lastOp.gets + lastOp.heads = 1

\* C7: the Getattr that meets an expired entry of a path that is not listed
\* looks the cache up once, which calls Stat once and, exactly when Stat
\* reports a regular file, ReadFile once; without a token refresh each call
\* sends one request.
C7_ExpiredEntryRefetched ==
    (lastOp.op = "Getattr" /\ lastOp.stale /\ ~lastOp.listed) =>
        /\ lastOp.lookups = 1
        /\ Len(lastOp.calls) = (IF lastOp.kind = "file" THEN 2 ELSE 1)
        /\ lastOp.calls[1] = Called("Stat", lastOp.path)
        /\ lastOp.kind = "file" => lastOp.calls[2] = Called("ReadFile", lastOp.path)
        /\ lastOp.heads = 0 => lastOp.gets = Len(lastOp.calls)
        /\ (~lastOp.panic /\ lastOp.rc = 0) =>
              /\ Valid(statCache[lastOp.path], lastOp.at)
              /\ statCache[lastOp.path].at = lastOp.at

C7_Witness ==
    /\ lastOp.op = "Getattr"
    /\ lastOp.stale
    /\ ~lastOp.listed
    /\ lastOp.kind = "file"
    /\ lastOp.rc = 0
    /\ lastOp.gets = 2
    /\ lastOp.heads = 0

Max(a, b) == IF a > b THEN a ELSE b

\* C8: a Read whose content C was fetched returns
\* n = max(0, min(len(buff), len(C) - ofst)) and leaves C[ofst .. ofst+n) at
\* the start of buff and the rest of buff as it was.
C8_ReadCopiesClippedRange ==
    (lastOp.op = "Read" /\ lastOp.fetched) =>
        /\ lastOp.rc = Max(0, Min(lastOp.buflen, Len(lastOp.contents) - lastOp.ofst))
        /\ Len(lastOp.buff) = lastOp.buflen
        /\ \A i \in 1..lastOp.buflen :
              lastOp.buff[i] = (IF i <= lastOp.rc
                                THEN lastOp.contents[lastOp.ofst + i] ELSE 0)

C8_Witness ==
    /\ lastOp.op = "Read"
    /\ lastOp.fetched
    /\ lastOp.ofst > 0
    /\ lastOp.ofst < Len(lastOp.contents)
    /\ lastOp.ofst + lastOp.buflen > Len(lastOp.contents)
    /\ lastOp.rc = Len(lastOp.contents) - lastOp.ofst
    /\ lastOp.buff[1] = lastOp.contents[lastOp.ofst + 1]

---------------------------------------------------------------------------
(* Further properties of the client *)

\* C11: a call whose first attempt fails in the transport returns that
\* error, having sent the one request, without a handshake, a retry or a
\* crash.
C11_TransportErrorReturned ==
    (call.fn \in RequestCalls /\ call.first.err) =>
        /\ ~call.ret.panic
        /\ call.ret.err = ErrTransport
        /\ call.q.err = ErrTransport
        /\ Heads(call.q.sent) = 0
        /\ Gets(call.q.sent) = 1
        /\ client = "ready"

---------------------------------------------------------------------------
(* Properties of concurrent calls *)

\* The next step of thread t reads, or writes, f.notExistList.
ReadsList(t) == threads.pc[t] \in {"check", "recheck", "load"}
WritesList(t) == threads.pc[t] = "store"

\* C12: with Getattr calls running concurrently, no call writes the list
\* while another reads or writes it, every path whose append completed is in
\* the list, and the list holds no path twice.
C12_ListGuarded ==
    /\ \A t, u \in Threads :
          (t # u /\ WritesList(t)) => ~(ReadsList(u) \/ WritesList(u))
    /\ \A p \in threads.appended : isNotExist(notExistList, p)
    /\ \A i, j \in 1..Len(notExistList) :
          i # j => notExistList[i] # notExistList[j]

\* The next step of thread t reads c.token (line 54), or writes it (line 101).
ReadsToken(t) == threads.pc[t] = "header"
WritesToken(t) ==
    threads.pc[t] = "refresh" /\ HeadGrants(threads.x[t].refresh)

\* C13: with ReadFile, ReadDirectory and Stat running concurrently, no call
\* reads c.token for its header while a refresh in another call writes it.
C13_TokenGuarded ==
    \A t, u \in Threads : (t # u /\ WritesToken(t)) => ~ReadsToken(u)

\* The document that differs from doc in the Directory flag alone.
Twin(doc) == [doc EXCEPT !.Directory = ~doc.Directory]

\* C14: Stat of a directory document and Stat of the file document with the
\* same attribute fields agree in Executable, Archive, Hidden, ReadOnly,
\* SymbolicLink and TimeStamp, which are the document's; Activated is the
\* document's for a file and false for a directory.
C14_StatNormalisation ==
    (call.fn = "Stat" /\ call.ret.err = NoErr) =>
        /\ call.ret.stat.Directory = call.first.body.doc.Directory
        /\ \A f \in {"Executable", "Archive", "Hidden", "ReadOnly", "SymbolicLink"} :
              /\ call.ret.stat[f] = call.first.body.doc.Attributes[f]
              /\ call.ret.stat[f] = PathStatOf(Twin(call.first.body.doc))[f]
        /\ call.ret.stat.TimeStamp = call.first.body.doc.LocalTimeStamp
        /\ call.ret.stat.TimeStamp = PathStatOf(Twin(call.first.body.doc)).TimeStamp
        /\ call.ret.stat.Activated =
              (~call.first.body.doc.Directory /\ call.first.body.doc.Attributes.Activated)
        /\ PathStatOf(Twin(call.first.body.doc)).Activated =
              (call.first.body.doc.Directory /\ call.first.body.doc.Attributes.Activated)

C14_Witness ==
    /\ call.fn = "Stat"
    /\ call.ret.err = NoErr
    /\ call.first.body.doc.Directory
    /\ call.first.body.doc.Attributes.Activated
    /\ call.first.body.doc.Attributes.Hidden
    /\ call.first.body.doc.LocalTimeStamp = MaxStamp
    /\ ~call.ret.stat.Activated
    /\ call.ret.stat.Hidden
    /\ PathStatOf(Twin(call.first.body.doc)).Activated

---------------------------------------------------------------------------
(* Further properties of the adapter *)

\* C15: in the listing a directory fetch built, every size-fill read is a
\* ReadFile of a regular-file child, one per such child; the size of a
\* regular-file child is the length of its own content, or 0 when its read
\* failed; directories get no read and size 0.
C15_ChildSizeFromOwnContent ==
    (lastOp.op = "Readdir" /\ lastOp.fetched) =>
        /\ \A i \in 2..Len(lastOp.calls) :
              /\ lastOp.calls[i].fn = "ReadFile"
              /\ \E n \in DOMAIN lastOp.children :
                    /\ lastOp.children[n].Mode = ModeReg
                    /\ lastOp.calls[i].path = ChildPath(lastOp.path, n)
        /\ Len(lastOp.calls) - 1 =
              Cardinality({n \in DOMAIN lastOp.children :
                              lastOp.children[n].Mode = ModeReg})
        /\ \A n \in DOMAIN lastOp.children :
              IF lastOp.children[n].Mode = ModeReg
              THEN lastOp.children[n].Size \in {0, remote[ChildPath(lastOp.path, n)]}
              ELSE lastOp.children[n].Size = 0

\* C16: after removeFromNotExist(p) the list does not hold p, whatever it
\* held before, and holds every other path exactly if it held it before.
C16_RemoveUnlists ==
    lastOp.op = "removeFromNotExist" =>
        /\ ~isNotExist(notExistList, lastOp.path)
        /\ \A q \in FsPaths \ {lastOp.path} :
              isNotExist(notExistList, q) <=> isNotExist(lastOp.was, q)

\* C17: Getattr and Readdir always return, with 0 or -ENOENT; a lookup that
\* the cache could not answer and the remote layer failed (404, transport
\* error, undecodable answer, failed token refresh) gives -ENOENT, and a
\* Getattr that gives -ENOENT leaves its path in the negative-existence list.
C17_FailuresAreNotFound ==
    lastOp.op \in {"Getattr", "Readdir"} =>
        /\ ~lastOp.panic
        /\ client = "ready"
        /\ lastOp.rc \in {0, -ENOENT}
        /\ (lastOp.lookups = 1 /\ ~lastOp.hit /\ ~lastOp.fetched)
              => lastOp.rc = -ENOENT
        /\ (lastOp.op = "Getattr" /\ lastOp.rc = -ENOENT)
              => isNotExist(notExistList, lastOp.path)

\* The names of the children the store holds under dir.
ListedNames(dir) == {Listed(remote, dir)[i] : i \in 1..Len(Listed(remote, dir))}

ReadStep == \E p \in FsPaths : Read(p, MaxBuf, 0)

\* C19: every Read calls Client.ReadFile(path) once and sends a GET for it,
\* whatever the caches and the negative-existence list hold for path; what
\* it read of a regular file is the file as the store holds it now (or the
\* body of the service's error answer); and the step leaves the list and
\* both caches as they were, whether it succeeds, fails or crashes.
C19_ReadBypassesCaches ==
    /\ [](lastOp.op = "Read" =>
            /\ lastOp.lookups = 0
            /\ lastOp.calls = <<Called("ReadFile", lastOp.path)>>
            /\ lastOp.gets >= 1)
    /\ [][ReadStep =>
            /\ lastOp'.op = "Read"
            /\ (lastOp'.fetched /\ lastOp'.path \in FilePaths)
                  => lastOp'.contents \in {Bytes(remote[lastOp'.path]),
                                           ErrorBody.bytes}
            /\ UNCHANGED <<notExistList, statCache, dirCache>>]_vars

\* A Read that fetched a file while its path was listed as absent.
C19_Witness ==
    /\ lastOp.op = "Read"
    /\ lastOp.listed
    /\ isNotExist(notExistList, lastOp.path)
    /\ lastOp.fetched
    /\ lastOp.rc > 0

---------------------------------------------------------------------------
(* The token of the client *)

\* C20: a client that NewClient returned holds a token that is neither
\* empty nor 'unsafe', after any calls of ReadFile, ReadDirectory and Stat
\* and whatever the handshakes answered; a call changes the token only by
\* a handshake that granted one, to the token granted; and a call whose
\* handshake failed leaves the token as it was and returns the error.
C20_TokenInvariant ==
    /\ client \in {"ready", "crashed"} => (token # "" /\ token # UnsafeToken)
    /\ call.fn = "NewClient" =>
          /\ client = "ready" <=> call.ret.err = NoErr
          /\ client = "ready" => (HeadGrants(call.h) /\ token = call.h.csrf)
    /\ call.fn \in RequestCalls =>
          /\ token # call.before =>
                /\ CsrfRequired(call.first)
                /\ HeadGrants(call.x.refresh)
                /\ token = call.x.refresh.csrf
          /\ (CsrfRequired(call.first) /\ ~HeadGrants(call.x.refresh)) =>
                /\ token = call.before
                /\ call.ret.err # NoErr
                /\ ~call.ret.panic

\* A call whose handshake replaced the token t1 by t2.
C20_Witness ==
    /\ call.fn \in RequestCalls
    /\ CsrfRequired(call.first)
    /\ call.before = "t1"
    /\ token = "t2"
    /\ call.x.refresh.csrf = "t2"

=============================================================================
